---- MODULE Spec2Model ----
(***************************************************************************)
(* remapjson: the sealed-configuration scheme (pkg/config/sealer.go) and   *)
(* the webhook relay pipeline (pkg/rest server).                           *)
(*                                                                         *)
(* Go strings and byte slices are sequences of bytes (0..255); a token is  *)
(* the sequence of the ASCII codes of its characters.                      *)
(***************************************************************************)
EXTENDS Integers, Sequences, FiniteSets, TLC

\* ------------------------------------------------------------------------
\* Bounds of the model
\* ------------------------------------------------------------------------

\* number of distinct values the random source is allowed to yield
NumNonces == 2

\* number of Seal calls a caller of the Sealer makes
MaxSeals == 2

\* number of requests the server receives
MaxReqs == 2

VARIABLES
    sealed,     \* the Seal calls made so far, in order, with their results
    opened,     \* the last Unseal call and its result
    templates,  \* Server.templates: cache key -> parsed template
    reqs,       \* the requests in flight: inputs, position, locals
    done,       \* the request whose handler returned last, with its response
    arrived,    \* number of requests that have arrived
    run         \* Server.Run: the context, the listener, the shutdown goroutine

vars == <<sealed, opened, templates, reqs, done, arrived, run>>

\* ------------------------------------------------------------------------
\* Bytes and characters
\* ------------------------------------------------------------------------

RECURSIVE Xor(_, _)
\* bitwise exclusive or of two bytes
Xor(a, b) ==
    IF a = 0 THEN b
    ELSE IF b = 0 THEN a
    ELSE ((a + b) % 2) + 2 * Xor(a \div 2, b \div 2)

\* lower-case hexadecimal digit of a nibble, "0123456789abcdef"
HexDigit(v) == IF v < 10 THEN 48 + v ELSE 87 + v

\* value of a hexadecimal digit, -1 if the byte is none
HexVal(c) ==
    IF c >= 48 /\ c <= 57 THEN c - 48
    ELSE IF c >= 97 /\ c <= 102 THEN c - 87
    ELSE IF c >= 65 /\ c <= 70 THEN c - 55
    ELSE -1

IsCont(s, i) == i <= Len(s) /\ s[i] >= 128 /\ s[i] <= 191

\* utf8.DecodeRune: the size of the well-formed UTF-8 sequence that starts
\* at s[i] (s[i] >= 0x80), or 0 when the byte is invalid (RuneError, size 1)
Utf8Size(s, i) ==
    LET b == s[i]
        n2 == IF i + 1 <= Len(s) THEN s[i + 1] ELSE 0
    IN  IF b >= 194 /\ b <= 223
          THEN IF IsCont(s, i + 1) THEN 2 ELSE 0
        ELSE IF b = 224
          THEN IF n2 >= 160 /\ n2 <= 191 /\ IsCont(s, i + 2) THEN 3 ELSE 0
        ELSE IF b = 237
          THEN IF n2 >= 128 /\ n2 <= 159 /\ IsCont(s, i + 2) THEN 3 ELSE 0
        ELSE IF b >= 225 /\ b <= 239
          THEN IF IsCont(s, i + 1) /\ IsCont(s, i + 2) THEN 3 ELSE 0
        ELSE IF b = 240
          THEN IF n2 >= 144 /\ n2 <= 191 /\ IsCont(s, i + 2) /\ IsCont(s, i + 3)
               THEN 4 ELSE 0
        ELSE IF b >= 241 /\ b <= 243
          THEN IF IsCont(s, i + 1) /\ IsCont(s, i + 2) /\ IsCont(s, i + 3)
               THEN 4 ELSE 0
        ELSE IF b = 244
          THEN IF n2 >= 128 /\ n2 <= 143 /\ IsCont(s, i + 2) /\ IsCont(s, i + 3)
               THEN 4 ELSE 0
        ELSE 0

\* utf8.EncodeRune for a code point of the basic multilingual plane;
\* surrogates encode as U+FFFD
EncodeRune(r) ==
    IF r < 128 THEN <<r>>
    ELSE IF r < 2048 THEN <<192 + (r \div 64), 128 + (r % 64)>>
    ELSE IF r >= 55296 /\ r <= 57343 THEN <<239, 191, 189>>
    ELSE <<224 + (r \div 4096), 128 + ((r \div 64) % 64), 128 + (r % 64)>>

\* the bytes of U+FFFD, the replacement rune
RuneErrorBytes == <<239, 191, 189>>

\* ------------------------------------------------------------------------
\* encoding/json on sealedConfig{URL string `json:"url"`; Tmpl string `json:"tmpl"`}
\* ------------------------------------------------------------------------

\* the six bytes \u00XX
EscapeU00(b) == <<92, 117, 48, 48, HexDigit(b \div 16), HexDigit(b % 16)>>

\* the escape of a byte below 0x80, or the byte itself (HTML-safe escaping)
EscapeASCII(b) ==
    IF b = 92 \/ b = 34 THEN <<92, b>>
    ELSE IF b = 8 THEN <<92, 98>>
    ELSE IF b = 12 THEN <<92, 102>>
    ELSE IF b = 10 THEN <<92, 110>>
    ELSE IF b = 13 THEN <<92, 114>>
    ELSE IF b = 9 THEN <<92, 116>>
    ELSE IF b < 32 \/ b = 60 \/ b = 62 \/ b = 38 THEN EscapeU00(b)
    ELSE <<b>>

\* the rune of `size` bytes at s[i]: � for invalid UTF-8 (size 0),
\*   and   escaped, any other rune as it is
EscapeRune(s, i, size) ==
    IF size = 0 THEN <<92, 117, 102, 102, 102, 100>>
    ELSE IF size = 3 /\ s[i] = 226 /\ s[i + 1] = 128 /\ (s[i + 2] = 168 \/ s[i + 2] = 169)
      THEN <<92, 117, 50, 48, 50, HexDigit(s[i + 2] % 16)>>
    ELSE SubSeq(s, i, i + size - 1)

RECURSIVE AppendString(_, _)
RECURSIVE AppendRune(_, _, _)

\* json.Marshal of a string value without the surrounding quotes, from
\* index i on: HTML-safe escaping, invalid UTF-8 coerced to U+FFFD
AppendString(s, i) ==
    IF i > Len(s) THEN <<>>
    ELSE IF s[i] < 128 THEN EscapeASCII(s[i]) \o AppendString(s, i + 1)
    ELSE AppendRune(s, i, Utf8Size(s, i))

\* AppendString at a byte >= 0x80 that starts a rune of `size` bytes
AppendRune(s, i, size) ==
    EscapeRune(s, i, size) \o AppendString(s, i + (IF size = 0 THEN 1 ELSE size))

\* json.Marshal(sealedConfig{URL: urlStr, Tmpl: tmplStr}):
\*   {"url":"<urlStr>","tmpl":"<tmplStr>"}
Marshal(urlStr, tmplStr) ==
    <<123, 34, 117, 114, 108, 34, 58, 34>> \o AppendString(urlStr, 1)
      \o <<34, 44, 34, 116, 109, 112, 108, 34, 58, 34>> \o AppendString(tmplStr, 1)
      \o <<34, 125>>

\* the code point of the four hexadecimal digits s[i]..s[i + 3]
Hex4(s, i) ==
    HexVal(s[i]) * 4096 + HexVal(s[i + 1]) * 256 + HexVal(s[i + 2]) * 16 + HexVal(s[i + 3])

\* the byte a one-character escape \e stands for, -1 if e is none
Unescape(e) ==
    IF e = 34 \/ e = 92 \/ e = 47 THEN e
    ELSE IF e = 98 THEN 8
    ELSE IF e = 102 THEN 12
    ELSE IF e = 110 THEN 10
    ELSE IF e = 114 THEN 13
    ELSE IF e = 116 THEN 9
    ELSE -1

UnquoteFail(i) == [ok |-> FALSE, val |-> <<>>, next |-> i]

RECURSIVE Unquote(_, _, _)
RECURSIVE UnquoteRune(_, _, _, _)

\* the JSON string literal whose opening quote is at s[i - 1]: its value
\* (acc) and the index after its closing quote, [ok |-> FALSE] on a syntax error
Unquote(s, i, acc) ==
    IF i > Len(s) THEN UnquoteFail(i)
    ELSE IF s[i] = 34 THEN [ok |-> TRUE, val |-> acc, next |-> i + 1]
    ELSE IF s[i] < 32 THEN UnquoteFail(i)
    ELSE IF s[i] = 92 THEN
      (IF i + 1 > Len(s) THEN UnquoteFail(i)
       ELSE IF Unescape(s[i + 1]) >= 0 THEN Unquote(s, i + 2, Append(acc, Unescape(s[i + 1])))
       ELSE IF s[i + 1] = 117 /\ i + 5 <= Len(s) /\ \A k \in 2..5 : HexVal(s[i + k]) >= 0
         THEN Unquote(s, i + 6, acc \o EncodeRune(Hex4(s, i + 2)))
       ELSE UnquoteFail(i))
    ELSE IF s[i] < 128 THEN Unquote(s, i + 1, Append(acc, s[i]))
    ELSE UnquoteRune(s, i, acc, Utf8Size(s, i))

\* Unquote at a byte >= 0x80 that starts a rune of `size` bytes
UnquoteRune(s, i, acc, size) ==
    IF size = 0 THEN Unquote(s, i + 1, acc \o RuneErrorBytes)
    ELSE Unquote(s, i + size, acc \o SubSeq(s, i, i + size - 1))

\* ASCII lower-casing of a key (struct fields match case-insensitively)
Lower(s) == [k \in 1..Len(s) |-> IF s[k] >= 65 /\ s[k] <= 90 THEN s[k] + 32 ELSE s[k]]

\* a decoded JSON value: kind is "string", "number", "bool", "null", "array"
\* or "object"; str is the string's value or the scalar's lexeme, elems the
\* array's values, members the object's <<key, value>> pairs in input order
JsonVal(kind, str, elems, members) ==
    [kind |-> kind, str |-> str, elems |-> elems, members |-> members]

JsonFail == [ok |-> FALSE, val |-> JsonVal("null", <<>>, <<>>, <<>>), next |-> 0]

IsWs(c) == c = 32 \/ c = 9 \/ c = 10 \/ c = 13
IsDigit(c) == c >= 48 /\ c <= 57

RECURSIVE SkipWs(_, _)
SkipWs(s, i) == IF i <= Len(s) /\ IsWs(s[i]) THEN SkipWs(s, i + 1) ELSE i

RECURSIVE SkipDigits(_, _)
SkipDigits(s, i) == IF i <= Len(s) /\ IsDigit(s[i]) THEN SkipDigits(s, i + 1) ELSE i

\* the end of a run of digits that has to be non-empty, 0 if it is empty
NonEmpty(from, to) == IF to = from THEN 0 ELSE to

\* the index after the integer part that starts at s[j], 0 if there is none
NumberInt(s, j) ==
    IF j > Len(s) \/ ~IsDigit(s[j]) THEN 0
    ELSE IF s[j] = 48 THEN j + 1
    ELSE SkipDigits(s, j)

\* the index after the fraction, if any, that follows the integer part
\* ending before s[k]
NumberFrac(s, k) ==
    IF k = 0 THEN 0
    ELSE IF k <= Len(s) /\ s[k] = 46 THEN NonEmpty(k + 1, SkipDigits(s, k + 1))
    ELSE k

\* the index of the first digit of the exponent whose 'e' is s[f]
ExpDigits(s, f) ==
    IF f + 1 <= Len(s) /\ (s[f + 1] = 43 \/ s[f + 1] = 45) THEN f + 2 ELSE f + 1

\* the index after the exponent, if any, that follows the number ending
\* before s[f]
NumberExp(s, f) ==
    IF f = 0 THEN 0
    ELSE IF f <= Len(s) /\ (s[f] = 101 \/ s[f] = 69)
      THEN NonEmpty(ExpDigits(s, f), SkipDigits(s, ExpDigits(s, f)))
    ELSE f

\* the index after the JSON number that starts at s[i], 0 if there is none
NumberEnd(s, i) ==
    NumberExp(s, NumberFrac(s, NumberInt(s, IF s[i] = 45 THEN i + 1 ELSE i)))

HasPrefixAt(s, i, lit) == i + Len(lit) - 1 <= Len(s) /\ SubSeq(s, i, i + Len(lit) - 1) = lit

JsonOk(val, next) == [ok |-> TRUE, val |-> val, next |-> next]

RECURSIVE ParseValue(_, _)
RECURSIVE ParseElems(_, _, _)
RECURSIVE ParseMembers(_, _, _)

\* an array after the value acc ends with: ']' at s[j], or ',' and more
ElemsNext(s, j, acc) ==
    IF j > Len(s) THEN JsonFail
    ELSE IF s[j] = 93 THEN JsonOk(JsonVal("array", <<>>, acc, <<>>), j + 1)
    ELSE IF s[j] = 44 THEN ParseElems(s, j + 1, acc)
    ELSE JsonFail

\* an array after the parse v of its next value
ElemsAfter(s, acc, v) ==
    IF ~v.ok THEN JsonFail ELSE ElemsNext(s, SkipWs(s, v.next), Append(acc, v.val))

\* the values of an array after its '[', up to and including its ']'
ParseElems(s, i, acc) == ElemsAfter(s, acc, ParseValue(s, i))

\* an object after the member acc ends with: '}' at s[j], or ',' and more
MembersNext(s, j, acc) ==
    IF j > Len(s) THEN JsonFail
    ELSE IF s[j] = 125 THEN JsonOk(JsonVal("object", <<>>, <<>>, acc), j + 1)
    ELSE IF s[j] = 44 THEN ParseMembers(s, SkipWs(s, j + 1), acc)
    ELSE JsonFail

\* an object after the parse v of the value of the member called key
MemberAfter(s, acc, key, v) ==
    IF ~v.ok THEN JsonFail
    ELSE MembersNext(s, SkipWs(s, v.next), Append(acc, <<key, v.val>>))

\* an object after the key of a member, with s[c] to be the ':'
MemberValue(s, acc, key, c) ==
    IF c > Len(s) \/ s[c] # 58 THEN JsonFail
    ELSE MemberAfter(s, acc, key, ParseValue(s, c + 1))

\* an object after the parse k of the key of its next member
MemberKey(s, acc, k) ==
    IF ~k.ok THEN JsonFail ELSE MemberValue(s, acc, k.val, SkipWs(s, k.next))

\* the members of an object from the key at s[i] on, up to and including '}'
ParseMembers(s, i, acc) ==
    IF i > Len(s) \/ s[i] # 34 THEN JsonFail
    ELSE MemberKey(s, acc, Unquote(s, i + 1, <<>>))

\* the string value that unquotes as u
StringValue(u) ==
    IF u.ok THEN JsonOk(JsonVal("string", u.val, <<>>, <<>>), u.next) ELSE JsonFail

\* the object whose '{' is followed, after white space, by s[j]
ObjectFrom(s, j) ==
    IF j <= Len(s) /\ s[j] = 125 THEN JsonOk(JsonVal("object", <<>>, <<>>, <<>>), j + 1)
    ELSE ParseMembers(s, j, <<>>)

\* the array whose '[' is followed, after white space, by s[j]
ArrayFrom(s, j) ==
    IF j <= Len(s) /\ s[j] = 93 THEN JsonOk(JsonVal("array", <<>>, <<>>, <<>>), j + 1)
    ELSE ParseElems(s, j, <<>>)

\* the number from s[i] to before s[e]
NumberValue(s, i, e) ==
    IF e = 0 THEN JsonFail ELSE JsonOk(JsonVal("number", SubSeq(s, i, e - 1), <<>>, <<>>), e)

\* the JSON value that starts at s[i]
ParseValueAt(s, i) ==
    IF i > Len(s) THEN JsonFail
    ELSE IF s[i] = 34 THEN StringValue(Unquote(s, i + 1, <<>>))
    ELSE IF s[i] = 123 THEN ObjectFrom(s, SkipWs(s, i + 1))
    ELSE IF s[i] = 91 THEN ArrayFrom(s, SkipWs(s, i + 1))
    ELSE IF HasPrefixAt(s, i, <<116, 114, 117, 101>>)
      THEN JsonOk(JsonVal("bool", <<116, 114, 117, 101>>, <<>>, <<>>), i + 4)
    ELSE IF HasPrefixAt(s, i, <<102, 97, 108, 115, 101>>)
      THEN JsonOk(JsonVal("bool", <<102, 97, 108, 115, 101>>, <<>>, <<>>), i + 5)
    ELSE IF HasPrefixAt(s, i, <<110, 117, 108, 108>>)
      THEN JsonOk(JsonVal("null", <<>>, <<>>, <<>>), i + 4)
    ELSE NumberValue(s, i, NumberEnd(s, i))

\* the JSON value that starts at or after s[i0]
ParseValue(s, i0) == ParseValueAt(s, SkipWs(s, i0))

\* v if it is a value that nothing but white space follows
WholeValue(s, v) == IF v.ok /\ SkipWs(s, v.next) > Len(s) THEN v ELSE JsonFail

\* the whole input as one JSON value (checkValid and the decoder's scan)
ParseJSON(s) == WholeValue(s, ParseValue(s, 1))

RECURSIVE StoreMembers(_, _, _)

\* the member (name, v) stored into the struct, then the members after the
\* i-th; field names match without regard to case
StoreMember(members, i, cfg, name, v) ==
    IF (name # <<117, 114, 108>> /\ name # <<116, 109, 112, 108>>) \/ v.kind = "null"
      THEN StoreMembers(members, i + 1, cfg)
    ELSE IF v.kind # "string" THEN [ok |-> FALSE, cfg |-> cfg]
    ELSE IF name = <<117, 114, 108>>
      THEN StoreMembers(members, i + 1, [cfg EXCEPT !.URL = v.str])
    ELSE StoreMembers(members, i + 1, [cfg EXCEPT !.Tmpl = v.str])

\* the object's members stored one after the other into the struct
StoreMembers(members, i, cfg) ==
    IF i > Len(members) THEN [ok |-> TRUE, cfg |-> cfg]
    ELSE StoreMember(members, i, cfg, Lower(members[i][1]), members[i][2])

\* var cfg sealedConfig
ZeroConfig == [URL |-> <<>>, Tmpl |-> <<>>]

\* the parsed value v stored into a zero sealedConfig
StoreValue(v) ==
    IF ~v.ok THEN [ok |-> FALSE, cfg |-> ZeroConfig]
    ELSE IF v.val.kind = "null" THEN [ok |-> TRUE, cfg |-> ZeroConfig]
    ELSE IF v.val.kind # "object" THEN [ok |-> FALSE, cfg |-> ZeroConfig]
    ELSE StoreMembers(v.val.members, 1, ZeroConfig)

\* json.Unmarshal(plaintext, &cfg) with cfg a sealedConfig
Unmarshal(plaintext) == StoreValue(ParseJSON(plaintext))

\* ------------------------------------------------------------------------
\* encoding/base64, URLEncoding (alphabet A-Z a-z 0-9 - _, padding '=',
\* not strict)
\* ------------------------------------------------------------------------

PadChar == 61

\* the character of a 6-bit value
EncChar(v) ==
    IF v < 26 THEN 65 + v
    ELSE IF v < 52 THEN 97 + (v - 26)
    ELSE IF v < 62 THEN 48 + (v - 52)
    ELSE IF v = 62 THEN 45
    ELSE 95

\* decodeMap: the 6-bit value of a character, -1 outside the alphabet
DecVal(c) ==
    IF c >= 65 /\ c <= 90 THEN c - 65
    ELSE IF c >= 97 /\ c <= 122 THEN c - 97 + 26
    ELSE IF c >= 48 /\ c <= 57 THEN c - 48 + 52
    ELSE IF c = 45 THEN 62
    ELSE IF c = 95 THEN 63
    ELSE -1

RECURSIVE EncodeFrom(_, _)
EncodeFrom(d, i) ==
    LET r == Len(d) - i + 1 IN
    IF r <= 0 THEN <<>>
    ELSE IF r >= 3 THEN
      LET val == d[i] * 65536 + d[i + 1] * 256 + d[i + 2] IN
      <<EncChar(val \div 262144), EncChar((val \div 4096) % 64),
        EncChar((val \div 64) % 64), EncChar(val % 64)>> \o EncodeFrom(d, i + 3)
    ELSE IF r = 2 THEN
      LET val == d[i] * 65536 + d[i + 1] * 256 IN
      <<EncChar(val \div 262144), EncChar((val \div 4096) % 64),
        EncChar((val \div 64) % 64), PadChar>>
    ELSE
      LET val == d[i] * 65536 IN
      <<EncChar(val \div 262144), EncChar((val \div 4096) % 64), PadChar, PadChar>>

\* base64.URLEncoding.EncodeToString
EncodeToString(d) == EncodeFrom(d, 1)

DecodeError == [ok |-> FALSE, data |-> <<>>]

RECURSIVE DecodeFrom(_, _, _)

\* decodeQuantum on the four characters from s[i] on, whose 6-bit values
\* are v1..v4; the bits of the last character beyond the last whole byte
\* are dropped without a check (the encoding is not Strict)
DecodeQuantum(s, i, acc, v1, v2, v3, v4) ==
    IF v1 < 0 \/ v2 < 0 THEN DecodeError
    ELSE IF v3 < 0 THEN
      \* "xx==" must end the input
      (IF s[i + 2] = PadChar /\ i + 3 = Len(s) /\ s[i + 3] = PadChar
         THEN [ok |-> TRUE, data |-> Append(acc, v1 * 4 + (v2 \div 16))]
         ELSE DecodeError)
    ELSE IF v4 < 0 THEN
      \* "xxx=" must end the input
      (IF s[i + 3] = PadChar /\ i + 3 = Len(s)
         THEN [ok |-> TRUE,
               data |-> acc \o <<v1 * 4 + (v2 \div 16), (v2 % 16) * 16 + (v3 \div 4)>>]
         ELSE DecodeError)
    ELSE DecodeFrom(s, i + 4,
           acc \o <<v1 * 4 + (v2 \div 16), (v2 % 16) * 16 + (v3 \div 4), (v3 % 4) * 64 + v4>>)

\* the input without its '\r' and '\n', decoded quantum by quantum; a
\* padded encoding has no quantum of fewer than four characters
DecodeFrom(s, i, acc) ==
    IF i > Len(s) THEN [ok |-> TRUE, data |-> acc]
    ELSE IF i + 3 > Len(s) THEN DecodeError
    ELSE DecodeQuantum(s, i, acc, DecVal(s[i]), DecVal(s[i + 1]), DecVal(s[i + 2]),
                       DecVal(s[i + 3]))

NotNewline(c) == c # 10 /\ c # 13

\* base64.URLEncoding.DecodeString
DecodeString(token) == DecodeFrom(SelectSeq(token, NotNewline), 1, <<>>)

\* ------------------------------------------------------------------------
\* crypto: sha256, AES-256-GCM
\* ------------------------------------------------------------------------

\* a digest that does not depend on the bytes hashed
Sum256OfNothing(m) == [sha256 |-> <<>>]

\* sha256.Sum256 / sha256.New().Sum as a collision-free digest: the digest
\* of m is an opaque value that only an equal m yields
Sum256(m) == [sha256 |-> m]

RECURSIVE PolyHash(_, _, _)
PolyHash(m, i, h) ==
    IF i > Len(m) THEN h ELSE PolyHash(m, i + 1, (h * 257 + m[i] + 1) % 7999993)

\* the number a key seeds the cipher with
KeySeed(key) == PolyHash(key.sha256, 1, 1)

\* gcm.NonceSize() and the tag size of cipher.NewGCM
NonceSize == 12
TagSize == 16

\* the number (key, nonce) seeds the counter-mode keystream with
StreamSeed(key, nonce) == PolyHash(nonce, 1, KeySeed(key))

\* the byte the keystream of seed kn has at position i
KeyStream(kn, i) == ((kn \div 7) + i * (2 * (kn % 128) + 1)) % 256

\* counter mode under the keystream of seed kn: encryption and decryption
\* are the same XOR
CtrWith(kn, text) == [i \in 1..Len(text) |-> Xor(text[i], KeyStream(kn, i))]

Ctr(key, nonce, text) == CtrWith(StreamSeed(key, nonce), text)

RECURSIVE WeightedSum(_, _, _)
WeightedSum(d, i, w) ==
    IF i > Len(d) THEN 0 ELSE ((w * i + 1) * d[i] + WeightedSum(d, i + 1, w)) % 65536

\* TagSize keyed checksums of the sums s0 and s1 of n bytes
TagWith(ks, s0, s1, n) ==
    [j \in 1..TagSize |-> ((ks \div j) + s0 + (j - 1) * (s1 - s0) + n * j) % 256]

\* the authentication tag of nonce and ciphertext under key; no two inputs
\* of the model share a tag
Tag(key, nonce, ct) ==
    TagWith(KeySeed(key), WeightedSum(nonce \o ct, 1, 0), WeightedSum(nonce \o ct, 1, 1),
            Len(nonce) + Len(ct))

\* dst || ciphertext || tag
Tagged(key, dst, nonce, ct) == dst \o ct \o Tag(key, nonce, ct)

\* gcm.Seal(dst, nonce, plaintext, nil)
GcmSeal(key, dst, nonce, plaintext) == Tagged(key, dst, nonce, Ctr(key, nonce, plaintext))

\* the plaintext of ct if tag is its tag under (key, nonce), else an error
Checked(key, nonce, ct, tag) ==
    IF tag # Tag(key, nonce, ct) THEN [ok |-> FALSE, plaintext |-> <<>>]
    ELSE [ok |-> TRUE, plaintext |-> Ctr(key, nonce, ct)]

\* gcm.Open(nil, nonce, ciphertext, nil): the plaintext, or an error when
\* the input is shorter than a tag or the tag does not match
GcmOpen(key, nonce, ciphertext) ==
    IF Len(ciphertext) < TagSize THEN [ok |-> FALSE, plaintext |-> <<>>]
    ELSE Checked(key, nonce, SubSeq(ciphertext, 1, Len(ciphertext) - TagSize),
                 SubSeq(ciphertext, Len(ciphertext) - TagSize + 1, Len(ciphertext)))

\* ------------------------------------------------------------------------
\* config.Sealer
\* ------------------------------------------------------------------------

\* Seal with a nonce that is a constant instead of the random bytes
SealStaticNonce(Secret, urlStr, tmplStr, nonce) ==
    EncodeToString(GcmSeal(Sum256(Secret), [i \in 1..NonceSize |-> 0],
                           [i \in 1..NonceSize |-> 0], Marshal(urlStr, tmplStr)))

\* Sealer.Seal with the nonce rand.Read has delivered
Seal(Secret, urlStr, tmplStr, nonce) ==
    EncodeToString(GcmSeal(Sum256(Secret), nonce, nonce, Marshal(urlStr, tmplStr)))

UnsealError(msg) == [urlStr |-> <<>>, tmplStr |-> <<>>, err |-> msg]

\* Unseal from the result cfg of json.Unmarshal on
UnsealConfig(cfg) ==
    IF ~cfg.ok THEN UnsealError("unmarshal config")
    ELSE [urlStr |-> cfg.cfg.URL, tmplStr |-> cfg.cfg.Tmpl, err |-> ""]

\* Unseal from the result of gcm.Open on
UnsealOpened(opening) ==
    IF ~opening.ok THEN UnsealError("decrypt token")
    ELSE UnsealConfig(Unmarshal(opening.plaintext))

\* a Sealer that hands a token shorter than a nonce to gcm.Open
UnsealShortOpened(key, dec) ==
    IF ~dec.ok THEN UnsealError("decode token")
    ELSE IF Len(dec.data) < NonceSize THEN UnsealError("decrypt token")
    ELSE UnsealOpened(GcmOpen(key, SubSeq(dec.data, 1, NonceSize),
                              SubSeq(dec.data, NonceSize + 1, Len(dec.data))))

\* Unseal from the result dec of DecodeString on
UnsealDecoded(key, dec) ==
    IF ~dec.ok THEN UnsealError("decode token")
    ELSE IF Len(dec.data) < NonceSize THEN UnsealError("token too short")
    ELSE UnsealOpened(GcmOpen(key, SubSeq(dec.data, 1, NonceSize),
                              SubSeq(dec.data, NonceSize + 1, Len(dec.data))))

\* Sealer.Unseal
Unseal(Secret, token) == UnsealDecoded(Sum256(Secret), DecodeString(token))

\* the values rand.Read may fill a nonce with
Nonces == {[i \in 1..NonceSize |-> (n * 37 + i * 11) % 256] : n \in 0..(NumNonces - 1)}

\* ------------------------------------------------------------------------
\* text/template on the templates of the model: text, and actions that are
\* a chain of fields, {{.a}} or {{.a.b}}.  Functions, pipelines and control
\* structures are outside this template language.
\* ------------------------------------------------------------------------

RECURSIVE IndexFrom(_, _, _)
\* the first index >= i at which sub occurs in s, 0 if there is none
IndexFrom(s, sub, i) ==
    IF i + Len(sub) - 1 > Len(s) THEN 0
    ELSE IF SubSeq(s, i, i + Len(sub) - 1) = sub THEN i
    ELSE IndexFrom(s, sub, i + 1)

LeftDelim == <<123, 123>>
RightDelim == <<125, 125>>

IsIdentChar(c) ==
    \/ (c >= 97 /\ c <= 122) \/ (c >= 65 /\ c <= 90) \/ (c >= 48 /\ c <= 57) \/ c = 95

RECURSIVE IdentEnd(_, _)
IdentEnd(s, i) == IF i <= Len(s) /\ IsIdentChar(s[i]) THEN IdentEnd(s, i + 1) ELSE i

RECURSIVE ParseFields(_, _, _)
\* the names of the field chain .a.b that is the whole of c, <<>> if c is
\* no field chain
ParseFields(c, i, acc) ==
    IF i > Len(c) THEN acc
    ELSE IF c[i] # 46 THEN <<>>
    ELSE LET e == IdentEnd(c, i + 1) IN
      IF e = i + 1 THEN <<>> ELSE ParseFields(c, e, Append(acc, SubSeq(c, i + 1, e - 1)))

\* the action's text without the spaces around it
RECURSIVE TrimSpace(_)
TrimSpace(c) ==
    IF Len(c) > 0 /\ c[1] = 32 THEN TrimSpace(Tail(c))
    ELSE IF Len(c) > 0 /\ c[Len(c)] = 32 THEN TrimSpace(SubSeq(c, 1, Len(c) - 1))
    ELSE c

TextNode(text) == [text |-> text, fields |-> <<>>]
FieldNode(fields) == [text |-> <<>>, fields |-> fields]

RECURSIVE ParseFrom(_, _, _)
ParseFrom(s, i, acc) ==
    LET j == IndexFrom(s, LeftDelim, i) IN
    IF j = 0 THEN
      [ok |-> TRUE, tree |-> IF i > Len(s) THEN acc ELSE Append(acc, TextNode(SubSeq(s, i, Len(s))))]
    ELSE LET k    == IndexFrom(s, RightDelim, j + 2)
             acc2 == IF j > i THEN Append(acc, TextNode(SubSeq(s, i, j - 1))) ELSE acc
         IN
      IF k = 0 THEN [ok |-> FALSE, tree |-> <<>>]
      ELSE LET fields == ParseFields(TrimSpace(SubSeq(s, j + 2, k - 1)), 1, <<>>) IN
        IF fields = <<>> THEN [ok |-> FALSE, tree |-> <<>>]
        ELSE ParseFrom(s, k + 2, Append(acc2, FieldNode(fields)))

\* template.New("").Parse(tstr): the parse tree, or an error
Parse(tstr) == ParseFrom(tstr, 1, <<>>)

\* the value a map key is absent for
Missing == JsonVal("missing", <<>>, <<>>, <<>>)

RECURSIVE Lookup(_, _, _)
\* the value of the last member called name among the first i members
Lookup(members, name, i) ==
    IF i = 0 THEN Missing
    ELSE IF members[i][1] = name THEN members[i][2]
    ELSE Lookup(members, name, i - 1)

RECURSIVE EvalFields(_, _, _)
\* evalField along the chain from fields[i] on, with v the receiver
EvalFields(v, fields, i) ==
    IF i > Len(fields) THEN [ok |-> TRUE, val |-> v]
    ELSE IF v.kind = "missing" THEN EvalFields(Missing, fields, i + 1)
    ELSE IF v.kind = "object"
      THEN EvalFields(Lookup(v.members, fields[i], Len(v.members)), fields, i + 1)
    \* a nil interface, or a value that has no fields
    ELSE [ok |-> FALSE, val |-> Missing]

NoValue == <<60, 110, 111, 32, 118, 97, 108, 117, 101, 62>>    \* "<no value>"

\* printValue: exact for strings, booleans, null and absent values;
\* numbers print as their lexeme and containers without their contents
PrintValue(v) ==
    IF v.kind = "string" \/ v.kind = "bool" \/ v.kind = "number" THEN v.str
    ELSE IF v.kind = "array" THEN <<91, 93>>
    ELSE IF v.kind = "object" THEN <<109, 97, 112, 91, 93>>
    ELSE NoValue

RECURSIVE Walk(_, _, _, _)
Walk(tree, data, i, out) ==
    IF i > Len(tree) THEN [ok |-> TRUE, out |-> out]
    ELSE IF tree[i].fields = <<>> THEN Walk(tree, data, i + 1, out \o tree[i].text)
    ELSE LET dot == JsonVal("object", <<>>, <<>>, data.members)
             v   == EvalFields(dot, tree[i].fields, 1)
         IN IF ~v.ok THEN [ok |-> FALSE, out |-> out]
            ELSE Walk(tree, data, i + 1, out \o PrintValue(v.val))

\* tmpl.Execute(buf, data) with data a map[string]any: the bytes written to
\* buf, which on an error are the output up to the failing action
Execute(tmpl, data) == Walk(tmpl.tree, data, 1, <<>>)

\* var data map[string]any
NilData == [isNil |-> TRUE, members |-> <<>>]

\* json.Unmarshal(body, &data) with data a nil map[string]any
UnmarshalData(body) ==
    LET v == ParseJSON(body) IN
    IF ~v.ok THEN [ok |-> FALSE, data |-> NilData]
    ELSE IF v.val.kind = "null" THEN [ok |-> TRUE, data |-> NilData]
    ELSE IF v.val.kind # "object" THEN [ok |-> FALSE, data |-> NilData]
    ELSE [ok |-> TRUE, data |-> [isNil |-> FALSE, members |-> v.val.members]]

RECURSIVE EscapeString(_)
\* html.EscapeString
EscapeString(s) ==
    IF s = <<>> THEN <<>>
    ELSE (IF s[1] = 38 THEN <<38, 97, 109, 112, 59>>
          ELSE IF s[1] = 39 THEN <<38, 35, 51, 57, 59>>
          ELSE IF s[1] = 60 THEN <<38, 108, 116, 59>>
          ELSE IF s[1] = 62 THEN <<38, 103, 116, 59>>
          ELSE IF s[1] = 34 THEN <<38, 35, 51, 52, 59>>
          ELSE <<s[1]>>) \o EscapeString(Tail(s))

\* http.NewRequestWithContext(ctx, method, url, body) fails on a URL that
\* url.Parse refuses; of those, the URLs with an ASCII control byte
NewRequestFails(url) == \E i \in 1..Len(url) : url[i] < 32 \/ url[i] = 127

\* ------------------------------------------------------------------------
\* Callers of the Sealer: the secrets, the pairs to seal and the ways a
\* token is damaged before Unseal.
\* ------------------------------------------------------------------------

SecretA == <<115, 101, 99, 114, 101, 116, 45, 97>>    \* "secret-a"
SecretB == <<115, 101, 99, 114, 101, 116, 45, 98>>    \* "secret-b"
Secrets == {SecretA, SecretB}

\* (url, template) pairs handed to Seal: plain text of three lengths (the
\* token ends in "=", in no padding and in "=="), and bytes that JSON has
\* to escape or cannot represent
SealInputs ==
    { <<<<117>>, <<116>>>>,                 \* "u", "t"
      <<<<117>>, <<116, 116>>>>,            \* "u", "tt"
      <<<<117>>, <<116, 116, 116>>>>,       \* "u", "ttt"
      <<<<255>>, <<34, 60>>>> }             \* "\xff", "\"<"

NoCall == [how |-> "none", Secret |-> <<>>, token |-> <<>>, of |-> 0,
           res |-> UnsealError("")]

\* the index of the last character of the token that is not padding
LastData(token) ==
    IF token[Len(token)] # PadChar THEN Len(token)
    ELSE IF token[Len(token) - 1] # PadChar THEN Len(token) - 1
    ELSE Len(token) - 2

\* the positions at which a token is tampered with
TamperPositions(token) == {1, (Len(token) \div 2) + 1, LastData(token), Len(token)}

\* the characters that replace character c: the test's flip, the next
\* character of the alphabet, padding, a line feed and '!'
TamperChars(c) ==
    ({IF c = 65 THEN 66 ELSE 65, PadChar, 10, 33}
       \cup (IF DecVal(c) >= 0 THEN {EncChar((DecVal(c) + 1) % 64)} ELSE {})) \ {c}

\* the prefix lengths a token is cut to
TruncLens == {0, 4, 16, 20}

\* ------------------------------------------------------------------------
\* rest.Server: handleConfigure and handleWebhook over the shared template
\* cache.  A handler runs in one step up to the point where another request
\* can observe or change what it shares: the Store into the cache that
\* follows a miss, and the wait for the target's response.
\* ------------------------------------------------------------------------

\* Server.Sealer.Secret and Server.BaseURL
ServerSecret == SecretA
BaseURL == <<104, 116, 116, 112, 58, 47, 47, 114>>                       \* "http://r"

URL_T   == <<104, 116, 116, 112, 58, 47, 47, 116, 47>>                   \* "http://t/"
URL_TX  == URL_T \o <<120>>                                               \* "http://t/x"
URL_TB  == URL_T \o <<123>>                                               \* "http://t/{"
URL_Ctl == URL_T \o <<127>>                                               \* "http://t/\x7f"

Tmpl_xs   == <<120, 115>>                                                 \* "xs"
Tmpl_s    == <<115>>                                                      \* "s"
Tmpl_b    == <<123>>                                                      \* "{"
Tmpl_vw   == <<123, 123, 46, 118, 46, 119, 125, 125>>                     \* "{{.v.w}}"
Tmpl_open == <<123, 123>>                                                 \* "{{"
Tmpl_part == <<112>> \o Tmpl_vw                                            \* "p{{.v.w}}"
Tmpl_ff   == <<255>>                                                      \* "\xff"

Body_vwx  == <<123, 34, 118, 34, 58, 123, 34, 119, 34, 58, 34, 120, 34, 125, 125>>  \* {"v":{"w":"x"}}
Body_vx   == <<123, 34, 118, 34, 58, 34, 120, 34, 125>>                   \* {"v":"x"}
Body_bad  == <<110, 111, 116, 45, 106, 115, 111, 110>>                    \* not-json
Body_arr  == <<91, 49, 93>>                                               \* [1]

Nonce0 == [i \in 1..NonceSize |-> (i * 11) % 256]

\* tokens sealed outside the server, as the tests and operators do
TokXS      == Seal(ServerSecret, URL_T, Tmpl_xs, Nonce0)
TokVW      == Seal(ServerSecret, URL_T, Tmpl_vw, Nonce0)
TokVW2     == Seal(ServerSecret, URL_T, Tmpl_vw, [i \in 1..NonceSize |-> (i * 7) % 256])
TokOpen    == Seal(ServerSecret, URL_T, Tmpl_open, Nonce0)
TokPart    == Seal(ServerSecret, URL_T, Tmpl_part, Nonce0)
TokCtl     == Seal(ServerSecret, URL_Ctl, Tmpl_s, Nonce0)
TokForeign == Seal(SecretB, URL_T, Tmpl_xs, Nonce0)
TokGarbage == <<33, 33, 33, 110, 111, 116, 98, 97, 115, 101, 54, 52, 33, 33, 33>>  \* "!!!notbase64!!!"
TokShort   == SubSeq(TokXS, 1, 4)

\* what a request brings: the path token, body and method of a delivery, or
\* the form fields and the HX-Request header of a configuration; ok is
\* whether reading the body, or parsing the form, succeeds
Input(token, body, method, urlStr, tmplStr, hx, ok) ==
    [token |-> token, body |-> body, method |-> method, urlStr |-> urlStr,
     tmplStr |-> tmplStr, hx |-> hx, ok |-> ok, minted |-> FALSE]

Delivery(token, body, method) == Input(token, body, method, <<>>, <<>>, FALSE, TRUE)
Form(urlStr, tmplStr, hx) == Input(<<>>, <<>>, "POST", urlStr, tmplStr, hx, TRUE)

\* the deliveries of tokens sealed outside the server
WebhookInputs ==
    { Delivery(TokXS, <<>>, "POST"),
      Delivery(TokVW, Body_vwx, "POST"),
      Delivery(TokVW, Body_vx, "POST"),
      Delivery(TokVW2, Body_vwx, "POST"),
      Delivery(TokVW, <<>>, "GET"),
      Delivery(TokPart, Body_vx, "POST"),
      Delivery(TokXS, Body_bad, "POST"),
      Delivery(TokXS, Body_arr, "POST"),
      Delivery(TokOpen, <<>>, "POST"),
      Delivery(TokCtl, <<>>, "POST"),
      Delivery(TokForeign, Body_vx, "POST"),
      Delivery(TokGarbage, <<>>, "GET"),
      Delivery(TokShort, <<>>, "POST"),
      Input(TokXS, <<>>, "POST", <<>>, <<>>, FALSE, FALSE) }

ConfigureInputs ==
    { Form(URL_TX, Tmpl_s, FALSE),
      Form(URL_T, Tmpl_vw, TRUE),
      Form(URL_T, Tmpl_open, FALSE),
      Form(URL_TB, Tmpl_b, FALSE),
      Form(URL_T, Tmpl_ff, FALSE),
      Form(<<>>, Tmpl_s, FALSE),
      Form(URL_T, <<>>, FALSE),
      Input(<<>>, <<>>, "POST", URL_T, Tmpl_s, FALSE, FALSE) }

\* "/wh/"
WhSegment == <<47, 119, 104, 47>>

RECURSIVE LastIndexFrom(_, _, _)
\* the last index <= i at which sub occurs in s, 0 if there is none
LastIndexFrom(s, sub, i) ==
    IF i < 1 THEN 0
    ELSE IF SubSeq(s, i, i + Len(sub) - 1) = sub THEN i
    ELSE LastIndexFrom(s, sub, i - 1)

\* strings.LastIndex(s, sub), counted from 1; 0 stands for -1
LastIndex(s, sub) == LastIndexFrom(s, sub, Len(s) - Len(sub) + 1)

\* raw[idx+len("/wh/"):] where idx is the index of the last "/wh/", and raw
\* itself where there is none
TokenFrom(raw, idx) == IF idx = 0 THEN raw ELSE SubSeq(raw, idx + Len(WhSegment), Len(raw))

\* a handler that takes what follows the first "/wh/" of the value
TokenAfterFirst(raw) == TokenFrom(raw, IndexFrom(raw, WhSegment, 1))

\* handleUnseal, the token in the value of the form field
TokenOf(raw) == TokenFrom(raw, LastIndex(raw, WhSegment))

\* the values of the token field of POST /unseal: none, a bare token, the
\* webhook URL of that token, a URL with two "/wh/", a URL that ends in
\* "/wh/", and a value that is no token; and a form that does not parse
UnsealInputs ==
    { Delivery(<<>>, <<>>, "POST"),
      Delivery(TokVW, <<>>, "POST"),
      Delivery(BaseURL \o WhSegment \o TokVW, <<>>, "POST"),
      Delivery(BaseURL \o WhSegment \o <<120>> \o WhSegment \o TokVW, <<>>, "POST"),
      Delivery(BaseURL \o WhSegment, <<>>, "POST"),
      Delivery(TokGarbage, <<>>, "POST"),
      Input(TokVW, <<>>, "POST", <<>>, <<>>, FALSE, FALSE) }

\* s.Sealer.Unseal(token) for the tokens the server is handed: the path
\* tokens of the deliveries, the tokens in the values of POST /unseal, and
\* the tokens POST /configure can return.  Unseal reads nothing but the
\* secret and its argument, so each result is computed once.
ServerUnseal ==
    [token \in {i.token : i \in WebhookInputs} \cup {TokenOf(i.token) : i \in UnsealInputs}
                 \cup {Seal(ServerSecret, f.urlStr, f.tmplStr, nonce) :
                         f \in ConfigureInputs, nonce \in Nonces}
       |-> Unseal(ServerSecret, token)]

\* s.Sealer.Seal(urlStr, tmplStr) for the forms of POST /configure, by the
\* nonce rand.Read delivers
ServerSeal ==
    [pair \in {<<f.urlStr, f.tmplStr>> : f \in ConfigureInputs}, nonce \in Nonces
       |-> Seal(ServerSecret, pair[1], pair[2], nonce)]

\* what Client.Do returns: a transport error, or the target's response,
\* whose body then copies in full or up to a failure after `copied` bytes
NoOutcome == [err |-> FALSE, status |-> 0, body |-> <<>>, copied |-> 0]
TransportError == [err |-> TRUE, status |-> 0, body |-> <<>>, copied |-> 0]
Outcomes ==
    { TransportError,
      [err |-> FALSE, status |-> 201, body |-> <<111, 107>>, copied |-> 2],
      [err |-> FALSE, status |-> 404, body |-> <<110, 111>>, copied |-> 1],
      [err |-> FALSE, status |-> 99, body |-> <<110, 111>>, copied |-> 2] }

NoTemplate == [src |-> <<>>, tree |-> <<>>, by |-> 0]
NoResp == [status |-> 0, errMsg |-> "", body |-> <<>>, format |-> ""]
NoMint == [token |-> <<>>, nonce |-> <<>>]

\* a request on its arrival, the id-th of the server
NewReq(id, kind, input) ==
    [id |-> id, kind |-> kind, in |-> input, pc |-> "new", err |-> "",
     url |-> <<>>, tstr |-> <<>>, data |-> NilData, tmpl |-> NoTemplate, hit |-> FALSE,
     parsed |-> FALSE, calls |-> <<>>, returned |-> FALSE, target |-> NoOutcome,
     resp |-> NoResp, minted |-> NoMint]

\* no request
NoReq == NewReq(0, "none", Input(<<>>, <<>>, "", <<>>, <<>>, FALSE, TRUE))

\* Server.error: the status and the JSON error envelope
Fail(q, status, msg) ==
    [q EXCEPT !.pc = "done",
              !.resp = [status |-> status, errMsg |-> msg, body |-> <<>>, format |-> "error"]]

\* Server.template, the cache key: the hex digest of url followed by tstr
TemplateKey(url, tstr) == Sum256(url \o tstr)

\* a Server.template that parses tstr whatever the cache holds
TemplateParsedAnew(cache, url, tstr, r) ==
    [hit |-> FALSE, ok |-> Parse(tstr).ok,
     tmpl |-> IF Parse(tstr).ok THEN [src |-> tstr, tree |-> Parse(tstr).tree, by |-> r]
              ELSE NoTemplate]

\* Server.template up to its return or its Store: a hit returns the cached
\* template; a miss parses tstr
TemplateLoad(cache, url, tstr, r) ==
    LET key == TemplateKey(url, tstr) IN
    IF key \in DOMAIN cache
      THEN [hit |-> TRUE, ok |-> TRUE, tmpl |-> cache[key]]
      ELSE LET parsed == Parse(tstr) IN
        [hit |-> FALSE, ok |-> parsed.ok,
         tmpl |-> IF parsed.ok THEN [src |-> tstr, tree |-> parsed.tree, by |-> r]
                  ELSE NoTemplate]

\* a cache that keeps the entry it has and drops the one that comes later
TemplateKeepFirst(cache, url, tstr, tmpl) ==
    IF TemplateKey(url, tstr) \in DOMAIN cache THEN cache
    ELSE [k \in DOMAIN cache \cup {TemplateKey(url, tstr)} |->
            IF k = TemplateKey(url, tstr) THEN tmpl ELSE cache[k]]

\* s.templates.Store(key, tmpl)
TemplateStore(cache, url, tstr, tmpl) ==
    LET key == TemplateKey(url, tstr) IN
    [k \in DOMAIN cache \cup {key} |-> IF k = key THEN tmpl ELSE cache[k]]

\* handleConfigure from Seal on: the token and the response that carries
\* BaseURL + "/wh/" + token
Mint(q, nonce) ==
    LET token      == ServerSeal[<<q.url, q.tstr>>, nonce]
        webhookURL == BaseURL \o <<47, 119, 104, 47>> \o token
    IN [q EXCEPT !.pc = "done",
                 !.minted = [token |-> token, nonce |-> nonce],
                 !.resp = IF q.in.hx
                            THEN [status |-> 200, errMsg |-> "",
                                  body |-> EscapeString(webhookURL), format |-> "html"]
                            ELSE [status |-> 200, errMsg |-> "",
                                  body |-> webhookURL, format |-> "json"]]

\* a handler that takes every body for an empty one
DecodeNothing(body) == [ok |-> TRUE, data |-> NilData]

\* handleWebhook, the decoding of the body that was read
DecodeBody(body) ==
    IF Len(body) > 0 THEN UnmarshalData(body) ELSE [ok |-> TRUE, data |-> NilData]

\* a handler that takes every token
TokenNeverRejected(u) == FALSE

\* handleWebhook, the check of what Unseal returned
TokenRejected(u) == u.err # ""

\* a handler that sends what Execute has written before it failed
SendPartial(q) ==
    IF NewRequestFails(q.url) THEN Fail(q, 500, "failed to create request")
    ELSE [q EXCEPT !.pc = "await",
                   !.calls = Append(q.calls, [method |-> q.in.method, url |-> q.url,
                                              body |-> Execute(q.tmpl, q.data).out])]

\* handleWebhook from tmpl.Execute to Client.Do: the request as it waits for
\* the target after the one call it has sent, or as it has failed
Send(q) ==
    LET ex == Execute(q.tmpl, q.data) IN
    IF ~ex.ok THEN Fail(q, 500, "failed to execute template")
    ELSE IF NewRequestFails(q.url) THEN Fail(q, 500, "failed to create request")
    ELSE [q EXCEPT !.pc = "await",
                   !.calls = Append(q.calls, [method |-> q.in.method, url |-> q.url,
                                              body |-> ex.out])]

\* the least status code ResponseWriter.WriteHeader accepts
MinStatus == 100

\* what Recoverer answers after a panic of the handler
Recovered(q) ==
    [q EXCEPT !.pc = "done",
              !.resp = [status |-> 500, errMsg |-> "Internal Server Error",
                        body |-> <<>>, format |-> "panic"]]

\* a handler that sends the request a second time after a first failure
SendRetriedOnce(q) ==
    IF Len(q.calls) < 2
      THEN [q EXCEPT !.pc = "await", !.returned = FALSE, !.calls = Append(q.calls, q.calls[1])]
      ELSE Fail(q, 500, "failed to send request")

\* handleWebhook, Client.Do has returned an error
SendFailed(q) == Fail(q, 500, "failed to send request")

\* a handler that answers 200 whatever the target's status
RelayAsOK(q, outcome) ==
    [q EXCEPT !.pc = "done",
              !.resp = [status |-> 200, errMsg |-> "", body |-> outcome.body,
                        format |-> "proxy"]]

\* handleWebhook, Client.Do has returned a response: WriteHeader, which
\* panics on a status below MinStatus, then io.Copy of the body, which may
\* fail after outcome.copied bytes
Relay(q, outcome) ==
    IF outcome.status < MinStatus THEN Recovered(q)
    ELSE [q EXCEPT !.pc = "done",
                   !.resp = [status |-> outcome.status, errMsg |-> "",
                             body |-> SubSeq(outcome.body, 1, outcome.copied),
                             format |-> "proxy"]]

\* a handler that calls Client.Do again when it has returned an error
ProxyResending(q, outcome) ==
    IF outcome.err /\ Len(q.calls) < 2
      THEN [q EXCEPT !.calls = Append(q.calls, q.calls[1])]
    ELSE IF outcome.err
      THEN SendFailed([q EXCEPT !.returned = TRUE, !.target = outcome])
    ELSE Relay([q EXCEPT !.returned = TRUE, !.target = outcome], outcome)

\* handleWebhook after Client.Do has returned outcome
Proxy(q, outcome) ==
    IF outcome.err
      THEN SendFailed([q EXCEPT !.returned = TRUE, !.target = outcome])
      ELSE Relay([q EXCEPT !.returned = TRUE, !.target = outcome], outcome)

\* handleUnseal, the pieces of the fragment around the two values:
\* <div class="field"><div class="section-label">Target URL</div><div class="preview-box"><pre>
FragmentHead ==
    <<60, 100, 105, 118, 32, 99, 108, 97, 115, 115, 61, 34, 102, 105, 101, 108, 100, 34,
      62, 60, 100, 105, 118, 32, 99, 108, 97, 115, 115, 61, 34, 115, 101, 99, 116, 105,
      111, 110, 45, 108, 97, 98, 101, 108, 34, 62, 84, 97, 114, 103, 101, 116, 32, 85, 82,
      76, 60, 47, 100, 105, 118, 62, 60, 100, 105, 118, 32, 99, 108, 97, 115, 115, 61, 34,
      112, 114, 101, 118, 105, 101, 119, 45, 98, 111, 120, 34, 62, 60, 112, 114, 101, 62>>

\* </pre></div></div><div class="field"><div class="section-label">Template</div><div class="preview-box"><pre>
FragmentMid ==
    <<60, 47, 112, 114, 101, 62, 60, 47, 100, 105, 118, 62, 60, 47, 100, 105, 118, 62, 60,
      100, 105, 118, 32, 99, 108, 97, 115, 115, 61, 34, 102, 105, 101, 108, 100, 34, 62,
      60, 100, 105, 118, 32, 99, 108, 97, 115, 115, 61, 34, 115, 101, 99, 116, 105, 111,
      110, 45, 108, 97, 98, 101, 108, 34, 62, 84, 101, 109, 112, 108, 97, 116, 101, 60,
      47, 100, 105, 118, 62, 60, 100, 105, 118, 32, 99, 108, 97, 115, 115, 61, 34, 112,
      114, 101, 118, 105, 101, 119, 45, 98, 111, 120, 34, 62, 60, 112, 114, 101, 62>>

\* </pre></div></div>
FragmentTail ==
    <<60, 47, 112, 114, 101, 62, 60, 47, 100, 105, 118, 62, 60, 47, 100, 105, 118, 62>>

\* handleUnseal from the result u of Unseal on: the error fragment, or the
\* fragment with the escaped url and template
UnsealShown(q, u) ==
    [q EXCEPT !.pc = "done", !.err = u.err, !.url = u.urlStr, !.tstr = u.tmplStr,
              !.resp = IF u.err # ""
                         THEN [status |-> 200, errMsg |-> u.err, body |-> <<>>,
                               format |-> "error fragment"]
                         ELSE [status |-> 200, errMsg |-> "",
                               body |-> FragmentHead \o EscapeString(u.urlStr) \o FragmentMid
                                          \o EscapeString(u.tmplStr) \o FragmentTail,
                               format |-> "html"]]

\* handleUnseal when there is nothing to unseal: an empty 200 response
UnsealSkipped(q) ==
    [q EXCEPT !.pc = "done",
              !.resp = [status |-> 200, errMsg |-> "", body |-> <<>>, format |-> "empty"]]

\* handleUnseal when ParseForm fails: the error fragment
UnsealFormRefused(q) ==
    [q EXCEPT !.pc = "done",
              !.resp = [status |-> 200, errMsg |-> "invalid form", body |-> <<>>,
                        format |-> "error fragment"]]

\* the shutdown window of Run, in seconds
ShutdownWindow == 10

\* Run in ListenAndServe: ctx is whether the context is done, listener
\* whether the server accepts connections, shutdown the position of the
\* goroutine ("idle" in <-ctx.Done(), "waiting" in srv.Shutdown, "done"
\* after its return of nil, "expired" after its return of the context's
\* error, "closed" after srv.Close), clock the seconds since Shutdown was
\* called, returned whether Run has returned, exited whether main has, and
\* dropped the requests whose connection was closed under them
Serving ==
    [ctx |-> "live", listener |-> "open", shutdown |-> "idle", clock |-> 0,
     returned |-> FALSE, exited |-> FALSE, dropped |-> {}]

Init ==
    /\ sealed = <<>>
    /\ opened = NoCall
    /\ templates = <<>>
    /\ reqs = {}
    /\ done = NoReq
    /\ arrived = 0
    /\ run = Serving

\* a request arrives and runs up to q: to its end, or to a point where it
\* is in flight
Arrive(q) ==
    /\ arrived' = arrived + 1
    /\ run' = run
    /\ IF q.pc = "done"
         THEN /\ done' = q
              /\ reqs' = reqs
         ELSE /\ reqs' = reqs \cup {q}
              /\ done' = done

\* the request in flight q goes on up to q2
Advance(q, q2) ==
    /\ arrived' = arrived
    /\ run' = run
    /\ IF q2.pc = "done"
         THEN /\ done' = q2
              /\ reqs' = reqs \ {q}
         ELSE /\ reqs' = (reqs \ {q}) \cup {q2}
              /\ done' = done

\* POST /configure up to the response, or to the Store after a cache miss
BeginConfigure(input) ==
    /\ arrived < MaxReqs
    /\ \E q \in {[NewReq(arrived + 1, "configure", input)
                    EXCEPT !.url = input.urlStr, !.tstr = input.tmplStr]} :
       \E t \in {TemplateLoad(templates, q.url, q.tstr, q.id)} :
       \E q2 \in {[q EXCEPT !.hit = t.hit, !.tmpl = t.tmpl, !.parsed = ~t.hit]} :
         IF ~input.ok
           THEN Arrive(Fail(q, 400, "invalid form data"))
         ELSE IF q.url = <<>> \/ q.tstr = <<>>
           THEN Arrive(Fail(q, 400, "missing URL or template"))
         ELSE IF t.hit
           THEN \E nonce \in Nonces : Arrive(Mint(q2, nonce))
         ELSE IF ~t.ok
           THEN Arrive(Fail(q2, 400, "invalid template"))
         ELSE Arrive([q2 EXCEPT !.pc = "store"])
    /\ UNCHANGED <<sealed, opened, templates>>

\* Server.template after a miss and a Parse: the Store of the template the
\* request has parsed
StoreTemplate(q) ==
    /\ q.pc = "store"
    /\ templates' = TemplateStore(templates, q.url, q.tstr, q.tmpl)

\* POST /configure from the Store of the parsed template to the response
StoreConfigure(q) ==
    /\ q.kind = "configure"
    /\ StoreTemplate(q)
    /\ \E nonce \in Nonces : Advance(q, Mint(q, nonce))
    /\ UNCHANGED <<sealed, opened>>

\* ANY /wh/{token} up to an error response, to Client.Do, or to the Store
\* after a cache miss
BeginWebhook(input) ==
    /\ arrived < MaxReqs
    /\ \E u \in {ServerUnseal[input.token]} :
       \E d \in {DecodeBody(input.body)} :
       \E q0 \in {NewReq(arrived + 1, "webhook", input)} :
       \E q \in {[q0 EXCEPT !.err = u.err, !.url = u.urlStr, !.tstr = u.tmplStr]} :
       \E t \in {TemplateLoad(templates, q.url, q.tstr, q.id)} :
       \E q2 \in {[q EXCEPT !.data = d.data, !.hit = t.hit, !.tmpl = t.tmpl,
                            !.parsed = ~t.hit]} :
         IF TokenRejected(u)
           THEN Arrive(Fail(q, 400, "invalid token: " \o u.err))
         ELSE IF ~input.ok
           THEN Arrive(Fail(q, 400, "failed to read request body"))
         ELSE IF ~d.ok
           THEN Arrive(Fail(q, 400, "invalid JSON"))
         ELSE IF t.hit
           THEN Arrive(Send(q2))
         ELSE IF ~t.ok
           THEN Arrive(Fail(q2, 400, "invalid template"))
         ELSE Arrive([q2 EXCEPT !.pc = "store"])
    /\ UNCHANGED <<sealed, opened, templates>>

\* ANY /wh/{token} from the Store of the parsed template to Client.Do
StoreWebhook(q) ==
    /\ q.kind = "webhook"
    /\ StoreTemplate(q)
    /\ Advance(q, Send(q))
    /\ UNCHANGED <<sealed, opened>>

\* ANY /wh/{token} from the return of Client.Do to the end
Respond(q, outcome) ==
    /\ q.pc = "await"
    /\ Advance(q, Proxy(q, outcome))
    /\ UNCHANGED <<sealed, opened, templates>>

\* POST /unseal, from the form to the response
HandleUnseal(input) ==
    /\ arrived < MaxReqs
    /\ \E q \in {NewReq(arrived + 1, "unseal", input)} :
         IF ~input.ok THEN Arrive(UnsealFormRefused(q))
         ELSE IF input.token = <<>> THEN Arrive(UnsealSkipped(q))
         ELSE Arrive(UnsealShown(q, ServerUnseal[TokenOf(input.token)]))
    /\ UNCHANGED <<sealed, opened, templates>>

\* the webhook URL that the last response, one of POST /configure, has
\* returned, as the value of the token field
MintedURLs ==
    IF done.minted.token # <<>>
      THEN {[Delivery(BaseURL \o WhSegment \o done.minted.token, <<>>, "POST")
               EXCEPT !.minted = TRUE]}
      ELSE {}

\* a delivery of the token that the last response, one of POST /configure,
\* has returned
MintedInputs ==
    IF done.minted.token # <<>>
      THEN {[Delivery(done.minted.token, <<>>, "POST") EXCEPT !.minted = TRUE]}
      ELSE {}

Next ==
    \/ \E input \in ConfigureInputs : BeginConfigure(input)
    \/ \E q \in reqs : StoreConfigure(q)
    \/ \E input \in WebhookInputs \cup MintedInputs : BeginWebhook(input)
    \/ \E q \in reqs : StoreWebhook(q)
    \/ \E q \in reqs, outcome \in Outcomes : Respond(q, outcome)
    \/ \E input \in UnsealInputs \cup MintedURLs : HandleUnseal(input)

Spec == Init /\ [][Next]_vars

\* ------------------------------------------------------------------------
\* Server.Run from ListenAndServe to the end of the process: the handlers
\* of the requests, the cancellation of the context by a signal, the
\* goroutine that shuts the server down, the return of ListenAndServe and
\* of Run, and the return of main.
\* ------------------------------------------------------------------------

\* a step of a handler: a request arrives while the listener is open, or a
\* request in flight goes on while the process lives
Serve ==
    /\ ~run.exited
    /\ Next
    /\ arrived' # arrived => run.listener = "open"

\* main's goroutine: a signal has arrived, cancel()
Cancel ==
    /\ ~run.exited
    /\ run.ctx = "live"
    /\ run' = [run EXCEPT !.ctx = "cancelled"]
    /\ UNCHANGED <<sealed, opened, templates, reqs, done, arrived>>

\* Run's goroutine after <-ctx.Done(): srv.Shutdown(shutdownCtx) closes the
\* listener and starts to wait for the connections in use
ShutdownBegin ==
    /\ ~run.exited
    /\ run.ctx = "cancelled"
    /\ run.shutdown = "idle"
    /\ run' = [run EXCEPT !.shutdown = "waiting", !.listener = "closed"]
    /\ UNCHANGED <<sealed, opened, templates, reqs, done, arrived>>

\* a second of shutdownCtx passes
Tick ==
    /\ ~run.exited
    /\ run.shutdown = "waiting"
    /\ run.clock < ShutdownWindow
    /\ run' = [run EXCEPT !.clock = run.clock + 1]
    /\ UNCHANGED <<sealed, opened, templates, reqs, done, arrived>>

\* srv.Shutdown finds no connection in use and returns nil
ShutdownReturn ==
    /\ ~run.exited
    /\ run.shutdown = "waiting"
    /\ reqs = {}
    /\ run' = [run EXCEPT !.shutdown = "done"]
    /\ UNCHANGED <<sealed, opened, templates, reqs, done, arrived>>

\* shutdownCtx is done after ShutdownWindow seconds: srv.Shutdown returns
\* its error
ShutdownExpire ==
    /\ ~run.exited
    /\ run.shutdown = "waiting"
    /\ run.clock = ShutdownWindow
    /\ run' = [run EXCEPT !.shutdown = "expired"]
    /\ UNCHANGED <<sealed, opened, templates, reqs, done, arrived>>

\* srv.Close() after the failed Shutdown: the connections in use are closed
ForceClose ==
    /\ ~run.exited
    /\ run.shutdown = "expired"
    /\ run' = [run EXCEPT !.shutdown = "closed",
                          !.dropped = run.dropped \cup {q.id : q \in reqs}]
    /\ reqs' = {}
    /\ UNCHANGED <<sealed, opened, templates, done, arrived>>

\* srv.ListenAndServe() returns http.ErrServerClosed once Shutdown has been
\* called, and Run returns nil
RunReturn ==
    /\ run.listener = "closed"
    /\ ~run.returned
    /\ run' = [run EXCEPT !.returned = TRUE]
    /\ UNCHANGED <<sealed, opened, templates, reqs, done, arrived>>

\* Execute, p.Parse and main return after Run: the process ends, and with
\* it the handlers and the goroutine of Run
Exit ==
    /\ run.returned
    /\ ~run.exited
    /\ run' = [run EXCEPT !.exited = TRUE,
                          !.dropped = run.dropped \cup {q.id : q \in reqs}]
    /\ reqs' = {}
    /\ UNCHANGED <<sealed, opened, templates, done, arrived>>

RunNext ==
    \/ Serve
    \/ Cancel
    \/ ShutdownBegin
    \/ Tick
    \/ ShutdownReturn
    \/ ShutdownExpire
    \/ ForceClose
    \/ RunReturn
    \/ Exit

RunSpec == Init /\ [][RunNext]_vars

\* ------------------------------------------------------------------------
\* The Sealer on its own: any sequence of Seal calls of the Sealer of
\* secret-a, followed by one Unseal call, by either Sealer, of a token as it
\* was returned, with one character replaced, or cut short.  Unseal reads
\* nothing but its receiver and its argument, so one Unseal call per run
\* covers every call.
\* ------------------------------------------------------------------------

SealerInit ==
    /\ sealed = <<>>
    /\ opened = NoCall
    /\ templates = <<>>
    /\ reqs = {}
    /\ done = NoReq
    /\ arrived = 0
    /\ run = Serving

\* token, err := Sealer{Secret}.Seal(urlStr, tmplStr)
DoSeal(Secret, urlStr, tmplStr) ==
    /\ Len(sealed) < MaxSeals
    /\ opened = NoCall
    /\ \E nonce \in Nonces :
         sealed' = Append(sealed, [Secret |-> Secret, urlStr |-> urlStr, tmplStr |-> tmplStr,
                                   nonce |-> nonce,
                                   token |-> Seal(Secret, urlStr, tmplStr, nonce)])
    /\ UNCHANGED <<opened, templates, reqs, done, arrived, run>>

\* Sealer{Secret}.Unseal(token) of the token of the i-th Seal call
DoUnseal(Secret, i) ==
    /\ i \in 1..Len(sealed)
    /\ opened = NoCall
    /\ opened' = [how |-> "intact", Secret |-> Secret, token |-> sealed[i].token, of |-> i,
                  res |-> Unseal(Secret, sealed[i].token)]
    /\ UNCHANGED <<sealed, templates, reqs, done, arrived, run>>

\* Unseal, under the secret that sealed it, of the last token with the
\* character at pos replaced by c
DoUnsealTampered(pos, c) ==
    /\ Len(sealed) > 0
    /\ opened = NoCall
    /\ LET i     == Len(sealed)
           token == sealed[i].token
       IN /\ pos \in TamperPositions(token)
          /\ c \in TamperChars(token[pos])
          /\ opened' = [how |-> "tampered", Secret |-> sealed[i].Secret,
                        token |-> [token EXCEPT ![pos] = c], of |-> i,
                        res |-> Unseal(sealed[i].Secret, [token EXCEPT ![pos] = c])]
    /\ UNCHANGED <<sealed, templates, reqs, done, arrived, run>>

\* Unseal, under the secret that sealed it, of the first n characters of the
\* last token
DoUnsealTruncated(n) ==
    /\ Len(sealed) > 0
    /\ opened = NoCall
    /\ LET i     == Len(sealed)
           token == SubSeq(sealed[i].token, 1, n)
       IN opened' = [how |-> "truncated", Secret |-> sealed[i].Secret, token |-> token,
                     of |-> i, res |-> Unseal(sealed[i].Secret, token)]
    /\ UNCHANGED <<sealed, templates, reqs, done, arrived, run>>

SealerNext ==
    \/ \E pair \in SealInputs : DoSeal(SecretA, pair[1], pair[2])
    \/ \E Secret \in Secrets, i \in 1..MaxSeals : DoUnseal(Secret, i)
    \/ \E pos \in TamperPositions(IF Len(sealed) > 0 THEN sealed[Len(sealed)].token ELSE <<0>>),
          c \in 0..127 : DoUnsealTampered(pos, c)
    \/ \E n \in TruncLens : DoUnsealTruncated(n)

SealerSpec == SealerInit /\ [][SealerNext]_vars

\* ------------------------------------------------------------------------
\* Properties of the Sealer
\* ------------------------------------------------------------------------

\* C1: Unseal, under the secret that sealed it, of the token a Seal call
\* returned succeeds and returns exactly the url and the template sealed.
C1_RoundTrip ==
    (opened.how = "intact" /\ opened.Secret = sealed[opened.of].Secret)
      => opened.res = [urlStr |-> sealed[opened.of].urlStr,
                       tmplStr |-> sealed[opened.of].tmplStr, err |-> ""]

\* C3: Unseal of a token by a Sealer whose secret is not the one that sealed
\* it returns an error, an empty url and an empty template.
C3_WrongSecretFails ==
    (opened.how = "intact" /\ opened.Secret # sealed[opened.of].Secret)
      => (opened.res.err # "" /\ opened.res.urlStr = <<>> /\ opened.res.tmplStr = <<>>)

\* a token sealed under secret-a was refused by the Sealer of secret-b
C3_Witness ==
    /\ opened.how = "intact"
    /\ opened.Secret = SecretB
    /\ sealed[opened.of].Secret = SecretA
    /\ opened.res.err = "decrypt token"

\* C4: Unseal fails for a token in which one character of a valid token was
\* replaced by a different one, whatever the position.
C4_TamperDetected ==
    opened.how = "tampered" => opened.res.err # ""

\* C16: Unseal of a token that decodes to fewer bytes than a nonce returns
\* the error 'token too short', not the error of a decryption, and returns
\* no url and no template.
C16_ShortTokenRefused ==
    (/\ opened.how # "none"
     /\ DecodeString(opened.token).ok
     /\ Len(DecodeString(opened.token).data) < NonceSize)
      => opened.res = UnsealError("token too short")

\* Unseal of the first four characters of a token, which decode to three
\* bytes, has returned 'token too short'
C16_Witness ==
    /\ opened.how = "truncated"
    /\ Len(opened.token) = 4
    /\ Len(DecodeString(opened.token).data) = 3
    /\ opened.res.err = "token too short"

\* ------------------------------------------------------------------------
\* Properties of handleWebhook
\* ------------------------------------------------------------------------

\* C5: a delivery whose token fails Unseal is answered 400 and no outbound
\* request is ever sent for it.
C5_BadTokenRejected ==
    \A q \in reqs \cup {done} :
      (q.kind = "webhook" /\ q.err # "")
        => (q.pc = "done" /\ q.resp.status = 400 /\ q.calls = <<>>)

\* a delivery of a token sealed under another secret has been answered 400
\* without an outbound request
C5_Witness ==
    /\ done.kind = "webhook"
    /\ done.in.token = TokForeign
    /\ done.err = "decrypt token"
    /\ done.resp.status = 400
    /\ done.calls = <<>>

\* C6: every outbound request sent for a delivery goes to the url of the
\* delivery's token and carries the rendering of the template of that token
\* against the decoded body of the delivery.
C6_DeliveryCorrect ==
    \A q \in reqs \cup {done} :
      \A i \in 1..Len(q.calls) :
        /\ q.calls[i].url = q.url
        /\ Parse(q.tstr).ok
        /\ q.calls[i].body = Execute([tree |-> Parse(q.tstr).tree], q.data).out

\* C7 as stated: when Client.Do has returned a response, the status and the
\* body written to the caller are the status and the body of the target.
C7_ProxiedVerbatim ==
    \A q \in reqs \cup {done} :
      (q.returned /\ ~q.target.err)
        => (q.resp.status = q.target.status /\ q.resp.body = q.target.body)

\* C7 as amended: when Client.Do has returned a response with a status that
\* WriteHeader accepts, the status written is the target's, 2xx or not, and
\* the body written is what io.Copy copied: the target's body when the copy
\* completes, a prefix of it when the copy fails.  On a status below 100
\* WriteHeader panics and Recoverer answers 500.
C7_ProxiedAsCopied ==
    \A q \in reqs \cup {done} :
      (q.returned /\ ~q.target.err)
        => /\ q.pc = "done"
           /\ q.target.status >= 100
                => /\ q.resp.status = q.target.status
                   /\ q.resp.body = SubSeq(q.target.body, 1, q.target.copied)
                   /\ (q.target.copied = Len(q.target.body) => q.resp.body = q.target.body)
           /\ q.target.status < 100
                => (q.resp.status = 500 /\ q.resp.format = "panic")

\* the target's 404 has been written to the caller as 404
C7_Witness ==
    /\ done.returned
    /\ ~done.target.err
    /\ done.target.status = 404
    /\ done.resp.status = 404
    /\ done.resp.format = "proxy"

\* C8: a delivery with a valid token and a non-empty body that is not JSON
\* ends in 400 'invalid JSON' and no outbound request is sent for it.
C8_MalformedBodyRejected ==
    \A q \in reqs \cup {done} :
      (q.kind = "webhook" /\ q.err = "" /\ q.in.ok /\ Len(q.in.body) > 0
         /\ ~ParseJSON(q.in.body).ok)
        => (q.pc = "done" /\ q.resp.status = 400 /\ q.resp.errMsg = "invalid JSON"
              /\ q.calls = <<>>)

\* the delivery of the body not-json has been answered 400 'invalid JSON'
C8_Witness ==
    /\ done.kind = "webhook"
    /\ done.err = ""
    /\ done.in.body = Body_bad
    /\ done.resp.status = 400
    /\ done.resp.errMsg = "invalid JSON"
    /\ done.calls = <<>>

\* C9: a delivery with a valid token and an empty body, past the Store of
\* its template, has nil data and has sent one outbound request with the
\* rendering of its token's template against nil: the template text itself
\* when the template is static.
C9_EmptyBodyDelivered ==
    \A q \in reqs \cup {done} :
      (q.kind = "webhook" /\ q.err = "" /\ q.in.ok /\ q.in.body = <<>>
         /\ q.pc \in {"await", "done"} /\ Parse(q.tstr).ok /\ ~NewRequestFails(q.url))
        => /\ q.data = NilData
           /\ Len(q.calls) = 1
           /\ q.calls[1].body = Execute([tree |-> Parse(q.tstr).tree], NilData).out
           /\ (IndexFrom(q.tstr, LeftDelim, 1) = 0 => q.calls[1].body = q.tstr)

\* C10: when Client.Do has returned an error, the caller is answered 500
\* 'failed to send request' and the one outbound request is all that was
\* sent.
C10_TransportFailure ==
    \A q \in reqs \cup {done} :
      (q.returned /\ q.target.err)
        => (q.pc = "done" /\ q.resp.status = 500
              /\ q.resp.errMsg = "failed to send request" /\ Len(q.calls) = 1)

\* a delivery whose outbound request failed has been answered 500
C10_Witness ==
    /\ done.kind = "webhook"
    /\ done.returned
    /\ done.target.err
    /\ done.resp.status = 500
    /\ Len(done.calls) = 1

\* C11: a delivery whose template fails in Execute against the decoded body
\* is answered 500 'failed to execute template', no outbound request is sent
\* for it, and nothing of what Execute had written goes out.
C11_RenderFailure ==
    \A q \in reqs \cup {done} :
      (q.kind = "webhook" /\ q.tmpl.by # 0 /\ q.pc # "store" /\ ~Execute(q.tmpl, q.data).ok)
        => /\ q.pc = "done"
           /\ q.resp.status = 500
           /\ q.resp.errMsg = "failed to execute template"
           /\ q.resp.body = <<>>
           /\ q.calls = <<>>

\* the delivery of {"v":"x"} to the template p{{.v.w}}, which fails after it
\* has written "p", has been answered 500 without an outbound request
C11_Witness ==
    /\ done.kind = "webhook"
    /\ done.in.token = TokPart
    /\ done.in.body = Body_vx
    /\ ~Execute(done.tmpl, done.data).ok
    /\ Execute(done.tmpl, done.data).out = <<112>>
    /\ done.resp.status = 500
    /\ done.calls = <<>>

\* C15: two deliveries whose tokens fail Unseal, the one answered after the
\* other, get the same response, whatever the check each token has failed.
C15_TokenErrorsAlike ==
    [][(/\ done.kind = "webhook" /\ done.err # ""
        /\ done'.kind = "webhook" /\ done'.err # "")
         => done'.resp = done.resp]_vars

\* the delivery q has passed Unseal, the decoding of its body, the lookup of
\* its template and Execute
Rendered(q) ==
    /\ q.kind = "webhook"
    /\ q.err = ""
    /\ q.in.ok
    /\ DecodeBody(q.in.body).ok
    /\ q.tmpl.by # 0
    /\ q.pc # "store"
    /\ Execute(q.tmpl, q.data).ok

\* C14 as stated: whatever other deliveries are in flight, a delivery that
\* has passed unseal, decode, compile and render has sent exactly one
\* outbound request, and no delivery ever sends more than one.
C14_SingleAttempt ==
    \A q \in reqs \cup {done} :
      /\ Len(q.calls) <= 1
      /\ Rendered(q) => Len(q.calls) = 1

\* C14 as amended: no delivery ever sends more than one outbound request; a
\* delivery that has passed unseal, decode, compile and render has sent
\* exactly one, with its own method and url, when http.NewRequest accepts
\* the url of its token, and none, answered 500, when it does not.
C14_OneCallPerRequestBuilt ==
    \A q \in reqs \cup {done} :
      /\ Len(q.calls) <= 1
      /\ (Rendered(q) /\ ~NewRequestFails(q.url))
           => /\ Len(q.calls) = 1
              /\ q.calls[1].url = q.url
              /\ q.calls[1].method = q.in.method
      /\ (Rendered(q) /\ NewRequestFails(q.url))
           => /\ q.calls = <<>>
              /\ q.pc = "done"
              /\ q.resp.status = 500
              /\ q.resp.errMsg = "failed to create request"

\* two deliveries of one token have been in flight together; the one whose
\* outbound request failed has ended with that one request sent, the other
\* one waits for the target with its own one request sent
C14_Witness ==
    /\ done.kind = "webhook"
    /\ done.in.token = TokXS
    /\ done.returned
    /\ done.target.err
    /\ Len(done.calls) = 1
    /\ \E q \in reqs :
         /\ q.in.token = TokXS
         /\ q.id < done.id
         /\ q.pc = "await"
         /\ Len(q.calls) = 1

\* ------------------------------------------------------------------------
\* Properties of handleConfigure
\* ------------------------------------------------------------------------

\* C12: a configuration is sealed into a token only if its url and template
\* are both non-empty and its template parses; a configuration with an empty
\* field or a template that does not parse is answered 400 with the error
\* envelope and no token.
C12_ConfigureValidated ==
    \A q \in reqs \cup {done} :
      q.kind = "configure"
        => /\ q.minted # NoMint
                => (q.in.ok /\ q.url # <<>> /\ q.tstr # <<>> /\ Parse(q.tstr).ok)
           /\ (q.in.ok /\ (q.url = <<>> \/ q.tstr = <<>> \/ ~Parse(q.tstr).ok))
                => /\ q.pc = "done"
                   /\ q.resp.status = 400
                   /\ q.resp.format = "error"
                   /\ q.minted = NoMint

\* C13: a configuration that is answered with a token is answered 200 with
\* the webhook URL BaseURL + "/wh/" + token (HTML-escaped in the fragment an
\* HX-Request gets), and the token unseals under the server's secret to
\* exactly the url and the template that were submitted.
C13_ConfigureResult ==
    \A q \in reqs \cup {done} :
      (q.kind = "configure" /\ q.minted # NoMint)
        => /\ q.pc = "done"
           /\ q.resp.status = 200
           /\ q.resp.body = IF q.in.hx
                               THEN EscapeString(BaseURL \o <<47, 119, 104, 47>> \o q.minted.token)
                               ELSE BaseURL \o <<47, 119, 104, 47>> \o q.minted.token
           /\ Unseal(ServerSecret, q.minted.token)
                = [urlStr |-> q.in.urlStr, tmplStr |-> q.in.tmplStr, err |-> ""]

\* ------------------------------------------------------------------------
\* Properties of handleUnseal
\* ------------------------------------------------------------------------

\* the request q to POST /unseal has been answered with what Unseal returns
\* as u: 200 with the error fragment for an error, 200 with the fragment
\* that shows the escaped url and template otherwise
AnsweredAs(q, u) ==
    /\ q.err = u.err
    /\ q.url = u.urlStr
    /\ q.tstr = u.tmplStr
    /\ q.resp.status = 200
    /\ u.err # "" => (q.resp.format = "error fragment" /\ q.resp.errMsg = u.err)
    /\ u.err = "" => (/\ q.resp.format = "html"
                      /\ q.resp.body = FragmentHead \o EscapeString(u.urlStr) \o FragmentMid
                                         \o EscapeString(u.tmplStr) \o FragmentTail)

\* the indices at which "/wh/" occurs in raw
WhAt(raw) == {k \in 1..Len(raw) : HasPrefixAt(raw, k, WhSegment)}

\* C17: POST /unseal with an empty token field is answered 200 with an
\* empty body and no result of Unseal; with a non-empty field it is answered
\* with the result of Unseal on what follows the last "/wh/" of the value,
\* or on the whole value if it has no "/wh/"; so a bare token and BaseURL +
\* "/wh/" + that token are both answered with the url and the template the
\* token seals, and a value that is no token is answered with the error
\* fragment.
C17_UnsealEndpoint ==
    \A q \in reqs \cup {done} :
      (q.kind = "unseal" /\ q.in.ok)
        => /\ q.pc = "done"
           /\ q.in.token = <<>>
                => (q.resp = [status |-> 200, errMsg |-> "", body |-> <<>>, format |-> "empty"]
                      /\ q.err = "" /\ q.url = <<>> /\ q.tstr = <<>>)
           /\ (q.in.token # <<>> /\ WhAt(q.in.token) = {})
                => AnsweredAs(q, Unseal(ServerSecret, q.in.token))
           /\ \A k \in WhAt(q.in.token) :
                (\A j \in WhAt(q.in.token) : j <= k)
                  => AnsweredAs(q, Unseal(ServerSecret,
                                          SubSeq(q.in.token, k + 4, Len(q.in.token))))
           /\ q.in.token \in {TokVW, BaseURL \o WhSegment \o TokVW}
                => AnsweredAs(q, [urlStr |-> URL_T, tmplStr |-> Tmpl_vw, err |-> ""])
           /\ q.in.token = TokGarbage
                => (q.err = "decode token" /\ q.resp.format = "error fragment")

\* a value with two "/wh/" has been answered with the url and the template
\* of the token that follows the second one
C17_Witness ==
    /\ done.kind = "unseal"
    /\ Cardinality(WhAt(done.in.token)) = 2
    /\ done.err = ""
    /\ done.url = URL_T
    /\ done.tstr = Tmpl_vw
    /\ done.resp.format = "html"

\* ------------------------------------------------------------------------
\* Properties of Server.template and the cache
\* ------------------------------------------------------------------------

\* C18: every call of Server.template(url, tstr) that returns a template
\* returns one that was compiled from tstr, whatever pairs were looked up
\* before it, pairs with the same concatenation url + tstr included.
C18_CacheReturnsOwnTemplate ==
    \A q \in reqs \cup {done} :
      q.tmpl.by # 0 => q.tmpl.src = q.tstr

\* Server.template has returned a template to the request p
Returned(p) == p.tmpl.by # 0 /\ p.pc # "store"

\* the request q has called Server.template
Looked(q) == q.hit \/ q.parsed

\* the request q has got its template from the cache, without a Parse
HitOnly(q) == q.hit /\ ~q.parsed

\* C19: once Server.template has returned a template for (url, tstr), the
\* cache holds an entry for the pair and keeps it, and every call for the
\* same pair that starts later returns the cached entry without parsing,
\* whichever token the pair was unsealed from.
C19_HitWithoutParse ==
    /\ [](\A p \in reqs \cup {done} :
            Returned(p) => TemplateKey(p.url, p.tstr) \in DOMAIN templates)
    /\ [][/\ DOMAIN templates \subseteq DOMAIN templates'
          /\ \A q \in reqs' \cup {done'} :
               (arrived' = arrived + 1 /\ q.id = arrived' /\ Looked(q))
                 => /\ TemplateKey(q.url, q.tstr) \in DOMAIN templates
                         => (HitOnly(q) /\ q.tmpl = templates[TemplateKey(q.url, q.tstr)])
                    /\ \A p \in reqs \cup {done} :
                         (Returned(p) /\ p.url = q.url /\ p.tstr = q.tstr) => HitOnly(q)]_vars

\* a delivery through one token has parsed and stored the template; a later
\* delivery through another token of the same url and template has been
\* served from the cache, which holds one entry
C19_Witness ==
    /\ done.kind = "webhook"
    /\ done.in.token = TokVW2
    /\ HitOnly(done)
    /\ Len(done.calls) = 1
    /\ \E p \in reqs :
         /\ p.in.token = TokVW
         /\ p.id < done.id
         /\ p.parsed
         /\ p.url = done.url /\ p.tstr = done.tstr
    /\ Cardinality(DOMAIN templates) = 1

\* the requests p and q have both missed the cache for one (url, tstr) and
\* parsed it, each on its own
RacedMiss(p, q) ==
    /\ p.id # q.id
    /\ p.parsed /\ q.parsed
    /\ p.tmpl.by # 0 /\ q.tmpl.by # 0
    /\ p.url = q.url /\ p.tstr = q.tstr

\* C20: requests that miss the cache together for one (url, tstr) each hold
\* a template of their own that is the parse of tstr, and none of them is
\* refused for its template; a request that waits to Store can always
\* store, whatever the cache holds, and a delivery can always go on from
\* there to its outbound request; and each Store leaves the entry of the
\* one that stored, the only entry under its key, in a cache that otherwise
\* stays as it was.
C20_BenignMissRace ==
    /\ [](\A p \in reqs \cup {done} : \A q \in reqs \cup {done} :
            RacedMiss(p, q)
              => /\ p.tmpl.by = p.id /\ q.tmpl.by = q.id
                 /\ p.tmpl.src = p.tstr /\ q.tmpl.src = q.tstr
                 /\ p.tmpl.tree = Parse(p.tstr).tree /\ q.tmpl.tree = p.tmpl.tree
                 /\ p.resp.errMsg # "invalid template" /\ q.resp.errMsg # "invalid template")
    /\ [](\A q \in reqs :
            q.pc = "store"
              => /\ ENABLED StoreTemplate(q)
                 /\ q.kind = "webhook" => ENABLED StoreWebhook(q))
    /\ [][\A q \in reqs \ reqs' :
            q.pc = "store"
              => /\ DOMAIN templates' = DOMAIN templates \cup {TemplateKey(q.url, q.tstr)}
                 /\ templates'[TemplateKey(q.url, q.tstr)] = q.tmpl
                 /\ \A k \in DOMAIN templates :
                      k # TemplateKey(q.url, q.tstr) => templates'[k] = templates[k]]_vars

\* two deliveries have missed the cache for one url and template; the one
\* that arrived first has stored last, and its template is the one entry of
\* the cache while both wait for the target
C20_Witness ==
    \E p \in reqs : \E q \in reqs :
      /\ RacedMiss(p, q)
      /\ p.id < q.id
      /\ p.pc = "await" /\ q.pc = "await"
      /\ Len(p.calls) = 1 /\ Len(q.calls) = 1
      /\ DOMAIN templates = {TemplateKey(p.url, p.tstr)}
      /\ templates[TemplateKey(p.url, p.tstr)].by = p.id

\* C21: the first delivery, on the same server, of a token that a
\* successful POST /configure has returned finds the compiled template in
\* the cache: it does not parse, it has nothing to store, and it is not
\* answered 400 'invalid template'.
C21_ConfigurePrewarms ==
    \A q \in reqs \cup {done} :
      (q.kind = "webhook" /\ q.in.minted)
        => (q.hit /\ ~q.parsed /\ q.pc # "store"
              /\ q.resp.errMsg # "invalid template")

\* ------------------------------------------------------------------------
\* Properties of the decoding of the body
\* ------------------------------------------------------------------------

\* C22: a delivery with a valid token and a non-empty body is answered 400
\* 'invalid JSON' exactly when the body is not well-formed JSON; a body that
\* is a JSON object, array or scalar passes the decoding.
C22_AnyJSONDecoded ==
    \A q \in reqs \cup {done} :
      (q.kind = "webhook" /\ q.err = "" /\ q.in.ok /\ Len(q.in.body) > 0)
        => (q.resp.errMsg = "invalid JSON" <=> ~ParseJSON(q.in.body).ok)

\* ------------------------------------------------------------------------
\* Properties of Server.Run
\* ------------------------------------------------------------------------

\* C23: once the context of Run is cancelled, the connections of the
\* requests in flight are closed under them only after the ShutdownWindow
\* seconds of the shutdown have passed, and Run has not returned, nor the
\* process ended, while a request is still in flight.
C23_GracefulShutdown ==
    /\ run.dropped # {} => (run.shutdown = "closed" /\ run.clock = ShutdownWindow)
    /\ run.returned => reqs = {}

====
